---------------------------- MODULE Spec2Model ----------------------------
(***************************************************************************)
(* Model of the OpenAPI command-line client.                               *)
(*                                                                         *)
(*   src/src/openapi.rs  Operation catalog (extract_endpoints)             *)
(*   src/src/http.rs     request resolution (handle_url_path,              *)
(*                       execute_request)                                  *)
(*   src/src/errors.rs   error taxonomy and conversions                    *)
(*   src/src/main.rs     the self-contained single-file variant of the     *)
(*                       same client (its own execute_request and main)    *)
(*                                                                         *)
(* Strings are sequences of one-character strings, so that substitution,   *)
(* percent-decoding and percent-encoding are computed and not assumed.     *)
(***************************************************************************)
EXTENDS Integers, Sequences, FiniteSets, TLC

VARIABLES
    variant,                \* "http": http.rs/openapi.rs/errors.rs; "main": main.rs
    endpoint,               \* openapi::Endpoint handed to execute_request
    matches,                \* clap::ArgMatches: argument id -> its values
    base_url,               \* the base address string handed to execute_request
    pc,                     \* position in the run
    idx,                    \* index of the parameter loop of execute_request
    final_url,              \* `final_url` (http.rs) / `url` (main.rs)
    path_for_interpolation, \* `path_for_interpolation` / `final_path`
    headers,                \* the HeaderMap under construction
    body,                   \* `body: Option<Value>`
    env,                    \* the process environment's two credential variables
    request,                \* the RequestBuilder after method dispatch
    sent,                   \* number of transport sends
    result,                 \* what execute_request returned
    steps,                  \* the steps of execute_request that have succeeded
    doc,                    \* the parsed OpenAPI document
    path_idx,               \* index of the path loop of extract_endpoints
    endpoints,              \* the catalog under construction
    server_arg,             \* the --server argument
    subcommand,             \* the invoked subcommand name
    selected                \* the endpoint the driver dispatched to

vars == <<variant, endpoint, matches, base_url, pc, idx, final_url,
          path_for_interpolation, headers, body, env,
          request, sent, result, steps, doc, path_idx, endpoints, server_arg,
          subcommand, selected>>

cli_vars == <<doc, path_idx, endpoints, server_arg, subcommand, selected>>

---------------------------------------------------------------------------
(* Bounds of the model.                                                    *)

\* longest parameter list of an endpoint
MaxParams == 2
\* most path entries of a document
MaxPaths == 2
\* most entries of the document's server list
MaxServers == 2

---------------------------------------------------------------------------
(* Character strings.                                                      *)

None == <<"<none>">>

LowerLetters == <<"a", "b", "c", "d", "e", "f", "g", "h", "i", "j", "k", "l", "m",
                  "n", "o", "p", "q", "r", "s", "t", "u", "v", "w", "x", "y", "z">>
UpperLetters == <<"A", "B", "C", "D", "E", "F", "G", "H", "I", "J", "K", "L", "M",
                  "N", "O", "P", "Q", "R", "S", "T", "U", "V", "W", "X", "Y", "Z">>
Digits == {"0", "1", "2", "3", "4", "5", "6", "7", "8", "9"}

IsLower(c) == \E i \in 1..26 : LowerLetters[i] = c
IsUpper(c) == \E i \in 1..26 : UpperLetters[i] = c
IsAlnum(c) == IsLower(c) \/ IsUpper(c) \/ c \in Digits

LetterIndex(letters, c) == CHOOSE i \in 1..26 : letters[i] = c

\* str::to_uppercase, str::to_lowercase (ASCII letters)
to_uppercase(s) ==
    [i \in 1..Len(s) |->
        IF IsLower(s[i]) THEN UpperLetters[LetterIndex(LowerLetters, s[i])] ELSE s[i]]
to_lowercase(s) ==
    [i \in 1..Len(s) |->
        IF IsUpper(s[i]) THEN LowerLetters[LetterIndex(UpperLetters, s[i])] ELSE s[i]]

\* whether `pat` occurs in `s` at position i
MatchAt(s, pat, i) ==
    /\ i + Len(pat) - 1 <= Len(s)
    /\ \A k \in 1..Len(pat) : s[i + k - 1] = pat[k]

Contains(s, pat) == \E i \in 1..Len(s) : MatchAt(s, pat, i)

starts_with(s, pat) == Len(pat) <= Len(s) /\ MatchAt(s, pat, 1)

\* str::strip_prefix('/').unwrap_or(path)
strip_prefix_slash(s) == IF starts_with(s, <<"/">>) THEN Tail(s) ELSE s

RECURSIVE trim_end_matches_slash(_)
\* str::trim_end_matches('/')
trim_end_matches_slash(s) ==
    IF s # <<>> /\ s[Len(s)] = "/"
    THEN trim_end_matches_slash(SubSeq(s, 1, Len(s) - 1))
    ELSE s

RECURSIVE ReplaceFrom(_, _, _, _)
ReplaceFrom(s, pat, rep, i) ==
    IF i > Len(s) THEN <<>>
    ELSE IF MatchAt(s, pat, i) THEN rep \o ReplaceFrom(s, pat, rep, i + Len(pat))
    ELSE <<s[i]>> \o ReplaceFrom(s, pat, rep, i + 1)

\* str::replace: every non-overlapping occurrence, left to right; the
\* replacement text is not scanned again
replace(s, pat, rep) == ReplaceFrom(s, pat, rep, 1)

\* format!("{{{}}}", param.name)
Placeholder(name) == <<"{">> \o name \o <<"}">>

---------------------------------------------------------------------------
(* Percent-encoding (crates percent_encoding and url).                     *)

\* <<character, high hex digit, low hex digit>> of the bytes the model's
\* alphabet can escape
EscapeTable ==
    { <<" ", "2", "0">>, <<"\"", "2", "2">>, <<"%", "2", "5">>, <<"/", "2", "F">>,
      <<":", "3", "A">>, <<"A", "4", "1">>, <<"{", "7", "B">>, <<"}", "7", "D">>,
      <<"\n", "0", "A">> }

HexDigits == Digits \cup {"A", "B", "C", "D", "E", "F", "a", "b", "c", "d", "e", "f"}

EscapeOf(c) == LET e == CHOOSE e \in EscapeTable : e[1] = c IN <<"%", e[2], e[3]>>

ByteChar(h, l) ==
    LET e == CHOOSE e \in EscapeTable :
                 e[2] = to_uppercase(<<h>>)[1] /\ e[3] = to_uppercase(<<l>>)[1]
    IN  e[1]

RECURSIVE DecodeFrom(_, _)
DecodeFrom(s, i) ==
    IF i > Len(s) THEN <<>>
    ELSE IF s[i] = "%" /\ i + 2 <= Len(s) /\ s[i + 1] \in HexDigits /\ s[i + 2] \in HexDigits
    THEN <<ByteChar(s[i + 1], s[i + 2])>> \o DecodeFrom(s, i + 3)
    ELSE <<s[i]>> \o DecodeFrom(s, i + 1)

\* percent_decode_str(s).decode_utf8_lossy().into_owned()
percent_decode_str(s) == DecodeFrom(s, 1)

RECURSIVE EncodeWith(_, _)
EncodeWith(s, set) ==
    IF s = <<>> THEN <<>>
    ELSE (IF Head(s) \in set THEN EscapeOf(Head(s)) ELSE <<Head(s)>>)
         \o EncodeWith(Tail(s), set)

\* the url crate's path percent-encode set, within the model's alphabet
PathEncodeSet == {" ", "\"", "{", "}"}

\* how the url crate stores a path: characters of the path set escaped, an
\* existing '%' kept as it is
PathEncode(s) == EncodeWith(s, PathEncodeSet)

RECURSIVE FormEncode(_)
\* form_urlencoded::byte_serialize: alphanumerics and *-._ kept, a space
\* becomes '+', every other byte is escaped
FormEncode(s) ==
    IF s = <<>> THEN <<>>
    ELSE (IF IsAlnum(Head(s)) \/ Head(s) \in {"*", "-", ".", "_"} THEN <<Head(s)>>
          ELSE IF Head(s) = " " THEN <<"+">>
          ELSE EscapeOf(Head(s)))
         \o FormEncode(Tail(s))

---------------------------------------------------------------------------
(* The url crate.  A base address string is given by what Url::parse makes  *)
(* of it: whether it is an absolute URL, its origin (scheme and authority)  *)
(* and the path text written after the authority.                           *)

NoUrl == [origin |-> "", path |-> <<>>, query |-> <<>>]

UrlParseError == [ok |-> FALSE, kind |-> "UrlParseError", detail |-> None]

\* Url::parse: a string with no scheme is a relative URL without a base; an
\* empty path of an http(s) URL is stored as "/"
UrlParse(base) ==
    IF ~base.absolute THEN UrlParseError
    ELSE [ok |-> TRUE,
          url |-> [origin |-> base.origin,
                   path |-> IF base.path = <<>> THEN <<"/">> ELSE PathEncode(base.path),
                   query |-> <<>>]]

RECURSIVE LastSlash(_)
LastSlash(p) == IF p = <<>> \/ p[Len(p)] = "/" THEN Len(p) ELSE LastSlash(SubSeq(p, 1, Len(p) - 1))

\* the base path with its last segment removed (RFC 3986 5.2.3, merge)
DirOf(p) == SubSeq(p, 1, LastSlash(p))

\* Url::join: an empty reference is the base itself, a reference that starts
\* with a slash replaces the path, any other reference replaces the last
\* segment of the base path
UrlJoin(url, rel) ==
    IF rel = <<>> THEN url
    ELSE IF rel[1] = "/" THEN [url EXCEPT !.path = PathEncode(rel)]
    ELSE [url EXCEPT !.path = DirOf(url.path) \o PathEncode(rel)]

\* Url::set_path on an http(s) URL: the path is stored escaped and rooted
set_path(url, p) ==
    [url EXCEPT !.path = PathEncode(IF starts_with(p, <<"/">>) THEN p ELSE <<"/">> \o p)]

\* url.query_pairs_mut().append_pair(name, value)
append_pair(url, name, value) ==
    [url EXCEPT !.query = Append(@, <<FormEncode(name), FormEncode(value)>>)]

---------------------------------------------------------------------------
(* clap::ArgMatches.                                                       *)

\* matches.get_one::<String>(id) is Some
Supplied(m, name) == m[name] # <<>>

\* matches.get_one::<String>(id): the first value of the argument
get_one(m, name) == m[name][1]

---------------------------------------------------------------------------
(* errors.rs.                                                              *)

NoResult == [ok |-> FALSE, kind |-> "none", detail |-> None]

\* Display of http::header::InvalidHeaderName and InvalidHeaderValue
msgInvalidHeaderName ==
    <<"i", "n", "v", "a", "l", "i", "d", " ", "H", "T", "T", "P", " ",
      "h", "e", "a", "d", "e", "r", " ", "n", "a", "m", "e">>
msgInvalidHeaderValue ==
    <<"f", "a", "i", "l", "e", "d", " ", "t", "o", " ", "p", "a", "r", "s", "e", " ",
      "h", "e", "a", "d", "e", "r", " ", "v", "a", "l", "u", "e">>

\* Errors::MissingRequiredParameterError { name }
MissingRequiredParameterError(name) ==
    [ok |-> FALSE, kind |-> "MissingRequiredParameterError", detail |-> name]

\* Errors::UnsupportedHttpMethodError { method }
UnsupportedHttpMethodError(method) ==
    [ok |-> FALSE, kind |-> "UnsupportedHttpMethodError", detail |-> method]

\* impl From<reqwest::header::InvalidHeaderName> for Errors: the name field
\* is err.to_string()
FromInvalidHeaderName(err) ==
    [ok |-> FALSE, kind |-> "InvalidHeaderName", detail |-> err.display]

\* impl From<reqwest::header::InvalidHeaderValue> for Errors: the name field
\* is err.to_string()
FromInvalidHeaderValue(err) ==
    [ok |-> FALSE, kind |-> "InvalidHeaderValue", detail |-> err.display]

SerdeJsonError == [ok |-> FALSE, kind |-> "SerdeJsonError", detail |-> None]

ReqwestError == [ok |-> FALSE, kind |-> "ReqwestError", detail |-> None]

\* main.rs: format!("Required parameter '{}' not provided", name).into()
RequiredNotProvided(name) ==
    [ok |-> FALSE, kind |-> "Required parameter '{}' not provided", detail |-> name]

\* main.rs: format!("Unsupported HTTP method: {}", method).into()
UnsupportedMethodMessage(method) ==
    [ok |-> FALSE, kind |-> "Unsupported HTTP method: {}", detail |-> method]

---------------------------------------------------------------------------
(* serde_json::from_str::<Value>, for JSON text without white space:       *)
(* numbers, strings without escapes and objects.  A value is               *)
(* <<kind, content>>.                                                      *)

JsonFail == [ok |-> FALSE, next |-> 0, value |-> <<>>]

RECURSIVE DigitsEnd(_, _)
DigitsEnd(s, i) == IF i <= Len(s) /\ s[i] \in Digits THEN DigitsEnd(s, i + 1) ELSE i

RECURSIVE QuoteAt(_, _)
\* position of the next '"' at or after i, or 0
QuoteAt(s, i) == IF i > Len(s) THEN 0 ELSE IF s[i] = "\"" THEN i ELSE QuoteAt(s, i + 1)

JsonStringAt(s, i) ==
    IF i <= Len(s) /\ s[i] = "\"" /\ QuoteAt(s, i + 1) # 0
    THEN [ok |-> TRUE, next |-> QuoteAt(s, i + 1) + 1,
          value |-> <<"string", SubSeq(s, i + 1, QuoteAt(s, i + 1) - 1)>>]
    ELSE JsonFail

RECURSIVE JsonValueAt(_, _)
RECURSIVE JsonMembersAt(_, _, _)

\* the members of an object from position i, after `acc`
JsonMembersAt(s, i, acc) ==
    LET k == JsonStringAt(s, i) IN
    IF ~k.ok \/ k.next > Len(s) \/ s[k.next] # ":" THEN JsonFail
    ELSE LET v == JsonValueAt(s, k.next + 1) IN
         IF ~v.ok \/ v.next > Len(s) THEN JsonFail
         ELSE IF s[v.next] = "}"
              THEN [ok |-> TRUE, next |-> v.next + 1,
                    value |-> <<"object", Append(acc, <<k.value, v.value>>)>>]
         ELSE IF s[v.next] = ","
              THEN JsonMembersAt(s, v.next + 1, Append(acc, <<k.value, v.value>>))
         ELSE JsonFail

JsonValueAt(s, i) ==
    IF i > Len(s) THEN JsonFail
    ELSE IF s[i] \in Digits
         THEN [ok |-> TRUE, next |-> DigitsEnd(s, i),
               value |-> <<"number", SubSeq(s, i, DigitsEnd(s, i) - 1)>>]
    ELSE IF s[i] = "\"" THEN JsonStringAt(s, i)
    ELSE IF s[i] = "{"
         THEN IF i + 1 <= Len(s) /\ s[i + 1] = "}"
              THEN [ok |-> TRUE, next |-> i + 2, value |-> <<"object", <<>>>>]
              ELSE JsonMembersAt(s, i + 1, <<>>)
    ELSE JsonFail

\* serde_json::from_str: one value and nothing after it
from_str(s) ==
    LET v == JsonValueAt(s, 1) IN
    IF v.ok /\ v.next = Len(s) + 1 THEN [ok |-> TRUE, value |-> v.value]
    ELSE [ok |-> FALSE, value |-> <<>>]

NoBody == <<"none", <<>>>>

---------------------------------------------------------------------------
(* http::header.                                                           *)

\* the characters of a header name (RFC 7230 token), within the model's
\* alphabet
IsTokenChar(c) == IsAlnum(c) \/ c \in {"!", "#", "$", "%", "&", "+", "-", ".", "_"}

\* HeaderName::from_bytes: a non-empty token, stored in lower case
HeaderName_from_bytes(bytes) ==
    IF bytes # <<>> /\ \A i \in 1..Len(bytes) : IsTokenChar(bytes[i])
    THEN [ok |-> TRUE, name |-> to_lowercase(bytes)]
    ELSE [ok |-> FALSE, err |-> [display |-> msgInvalidHeaderName]]

\* HeaderValue::from_str: visible ASCII, space and tab only
HeaderValue_from_str(v) ==
    IF \A i \in 1..Len(v) : v[i] \notin {"\n", "\r"}
    THEN [ok |-> TRUE, value |-> v]
    ELSE [ok |-> FALSE, err |-> [display |-> msgInvalidHeaderValue]]

\* HeaderMap::insert: the value replaces any value of the same name
HeaderMap_insert(h, name, value) ==
    SelectSeq(h, LAMBDA e : e.name # name) \o <<[name |-> name, value |-> value]>>

HeaderMap_contains(h, name) == \E i \in 1..Len(h) : h[i].name = name

sAuthorization ==
    <<"a", "u", "t", "h", "o", "r", "i", "z", "a", "t", "i", "o", "n">>
sContentType == <<"c", "o", "n", "t", "e", "n", "t", "-", "t", "y", "p", "e">>
sApplicationJson ==
    <<"a", "p", "p", "l", "i", "c", "a", "t", "i", "o", "n", "/", "j", "s", "o", "n">>
sBasicPrefix == <<"B", "a", "s", "i", "c", " ">>
sBearerPrefix == <<"B", "e", "a", "r", "e", "r", " ">>

---------------------------------------------------------------------------
(* http.rs: join_url and handle_url_path; main.rs: the same stage of its   *)
(* execute_request.                                                        *)

\* http.rs join_url
join_url(base, path) ==
    LET base_url_ == UrlParse(base) IN
    IF ~base_url_.ok THEN base_url_
    ELSE [ok |-> TRUE, url |-> UrlJoin(base_url_.url, strip_prefix_slash(path))]

RECURSIVE InterpolateFrom_RequiredPathOnly(_, _, _, _)
\* the loop with the required check made for Path parameters only
InterpolateFrom_RequiredPathOnly(params, m, path, i) ==
    IF i > Len(params) THEN [ok |-> TRUE, path |-> path]
    ELSE IF Supplied(m, params[i].name)
         THEN IF params[i].location = "Path"
              THEN InterpolateFrom_RequiredPathOnly(params, m,
                       replace(percent_decode_str(path), Placeholder(params[i].name),
                               get_one(m, params[i].name)),
                       i + 1)
              ELSE InterpolateFrom_RequiredPathOnly(params, m, path, i + 1)
    ELSE IF params[i].required /\ params[i].location = "Path"
         THEN [ok |-> FALSE, name |-> params[i].name]
    ELSE InterpolateFrom_RequiredPathOnly(params, m, path, i + 1)

RECURSIVE InterpolateFrom_NoDecode(_, _, _, _)
\* the loop without the percent-decoding before the replacement
InterpolateFrom_NoDecode(params, m, path, i) ==
    IF i > Len(params) THEN [ok |-> TRUE, path |-> path]
    ELSE IF Supplied(m, params[i].name)
         THEN IF params[i].location = "Path"
              THEN InterpolateFrom_NoDecode(params, m,
                       replace(path, Placeholder(params[i].name),
                               get_one(m, params[i].name)),
                       i + 1)
              ELSE InterpolateFrom_NoDecode(params, m, path, i + 1)
    ELSE IF params[i].required
         THEN [ok |-> FALSE, name |-> params[i].name]
    ELSE InterpolateFrom_NoDecode(params, m, path, i + 1)

RECURSIVE InterpolateFrom_StopAfterFirstPath(_, _, _, _)
\* the loop left after the first replacement of a Path parameter
InterpolateFrom_StopAfterFirstPath(params, m, path, i) ==
    IF i > Len(params) THEN [ok |-> TRUE, path |-> path]
    ELSE IF Supplied(m, params[i].name)
         THEN IF params[i].location = "Path"
              THEN [ok |-> TRUE,
                    path |-> replace(percent_decode_str(path), Placeholder(params[i].name),
                                     get_one(m, params[i].name))]
              ELSE InterpolateFrom_StopAfterFirstPath(params, m, path, i + 1)
    ELSE IF params[i].required
         THEN [ok |-> FALSE, name |-> params[i].name]
    ELSE InterpolateFrom_StopAfterFirstPath(params, m, path, i + 1)

RECURSIVE InterpolateFrom(_, _, _, _)
\* the parameter loop of handle_url_path (and of main.rs): a supplied Path
\* parameter decodes the path and replaces its placeholder, an unsupplied
\* required parameter ends the loop with an error
InterpolateFrom(params, m, path, i) ==
    IF i > Len(params) THEN [ok |-> TRUE, path |-> path]
    ELSE IF Supplied(m, params[i].name)
         THEN IF params[i].location = "Path"
              THEN InterpolateFrom(params, m,
                       replace(percent_decode_str(path), Placeholder(params[i].name),
                               get_one(m, params[i].name)),
                       i + 1)
              ELSE InterpolateFrom(params, m, path, i + 1)
    ELSE IF params[i].required
         THEN [ok |-> FALSE, name |-> params[i].name]
    ELSE InterpolateFrom(params, m, path, i + 1)

\* http.rs handle_url_path
handle_url_path(ep, m, base) ==
    LET parsed == UrlParse(base)
        joined == join_url(base, ep.path)
    IN  IF ~parsed.ok THEN parsed
        ELSE IF ~joined.ok THEN joined
        ELSE LET r == InterpolateFrom(ep.params, m, joined.url.path, 1) IN
             IF ~r.ok THEN MissingRequiredParameterError(r.name)
             ELSE [ok |-> TRUE, url |-> set_path(joined.url, r.path), path |-> r.path]

\* main.rs execute_request, lines 195-205: the path before interpolation
final_path_main(base_path, path) ==
    IF starts_with(path, <<"/">>) THEN path
    ELSE trim_end_matches_slash(base_path) \o <<"/">> \o path

\* main.rs execute_request, lines 195-232
url_path_main(ep, m, base) ==
    LET parsed == UrlParse(base) IN
    IF ~parsed.ok THEN parsed
    ELSE LET r == InterpolateFrom(ep.params, m,
                                  final_path_main(parsed.url.path, ep.path), 1) IN
         IF ~r.ok THEN RequiredNotProvided(r.name)
         ELSE [ok |-> TRUE, url |-> set_path(parsed.url, r.path), path |-> r.path]

---------------------------------------------------------------------------
(* http.rs execute_request (and main.rs execute_request), step by step.    *)

\* the loop iteration with a Body value that is no JSON passed over
process_param_SkipBadBody(url, hdrs, bdy, p, m) ==
    IF ~Supplied(m, p.name) THEN [ok |-> TRUE, url |-> url, headers |-> hdrs, body |-> bdy]
    ELSE LET value == get_one(m, p.name) IN
         CASE p.location = "Query" ->
                [ok |-> TRUE, url |-> append_pair(url, p.name, value),
                 headers |-> hdrs, body |-> bdy]
           [] p.location = "Body" ->
                LET parsed == from_str(value) IN
                [ok |-> TRUE, url |-> url, headers |-> hdrs,
                 body |-> IF parsed.ok THEN parsed.value ELSE bdy]
           [] p.location = "Header" ->
                LET n == HeaderName_from_bytes(to_uppercase(p.name))
                    v == HeaderValue_from_str(value)
                IN  IF ~n.ok THEN FromInvalidHeaderName(n.err)
                    ELSE IF ~v.ok THEN FromInvalidHeaderValue(v.err)
                    ELSE [ok |-> TRUE, url |-> url,
                          headers |-> HeaderMap_insert(hdrs, n.name, v.value),
                          body |-> bdy]
           [] p.location = "Path" ->
                [ok |-> TRUE, url |-> url, headers |-> hdrs, body |-> bdy]

\* one iteration of the loop over endpoint.params (http.rs 81-104, main.rs
\* 237-252) on the URL, the header map and the body built so far
process_param(url, hdrs, bdy, p, m) ==
    IF ~Supplied(m, p.name) THEN [ok |-> TRUE, url |-> url, headers |-> hdrs, body |-> bdy]
    ELSE LET value == get_one(m, p.name) IN
         CASE p.location = "Query" ->
                [ok |-> TRUE, url |-> append_pair(url, p.name, value),
                 headers |-> hdrs, body |-> bdy]
           [] p.location = "Body" ->
                LET parsed == from_str(value) IN
                IF parsed.ok
                THEN [ok |-> TRUE, url |-> url, headers |-> hdrs, body |-> parsed.value]
                ELSE SerdeJsonError
           [] p.location = "Header" ->
                LET n == HeaderName_from_bytes(to_uppercase(p.name))
                    v == HeaderValue_from_str(value)
                IN  IF ~n.ok THEN FromInvalidHeaderName(n.err)
                    ELSE IF ~v.ok THEN FromInvalidHeaderValue(v.err)
                    ELSE [ok |-> TRUE, url |-> url,
                          headers |-> HeaderMap_insert(hdrs, n.name, v.value),
                          body |-> bdy]
           [] p.location = "Path" ->
                [ok |-> TRUE, url |-> url, headers |-> hdrs, body |-> bdy]

\* inject_authorization with HeaderMap::append for insert: an Authorization
\* header already in the map is kept beside the new one
inject_authorization_Append(hdrs, prefix, token) ==
    IF token = None THEN [ok |-> TRUE, headers |-> hdrs]
    ELSE LET v == HeaderValue_from_str(prefix \o token) IN
         IF ~v.ok THEN FromInvalidHeaderValue(v.err)
         ELSE [ok |-> TRUE,
               headers |-> Append(hdrs, [name |-> sAuthorization, value |-> v.value])]

\* http.rs 106-118: one credential variable; a set variable writes the
\* Authorization header
inject_authorization(hdrs, prefix, token) ==
    IF token = None THEN [ok |-> TRUE, headers |-> hdrs]
    ELSE LET v == HeaderValue_from_str(prefix \o token) IN
         IF ~v.ok THEN FromInvalidHeaderValue(v.err)
         ELSE [ok |-> TRUE, headers |-> HeaderMap_insert(hdrs, sAuthorization, v.value)]

mGet == <<"g", "e", "t">>
mPost == <<"p", "o", "s", "t">>
mPut == <<"p", "u", "t">>
mDelete == <<"d", "e", "l", "e", "t", "e">>

\* the match with the put arm building a POST request
method_verb_PutAsPost(method) ==
    CASE to_lowercase(method) = mGet -> "GET"
      [] to_lowercase(method) = mPost -> "POST"
      [] to_lowercase(method) = mPut -> "POST"
      [] to_lowercase(method) = mDelete -> "DELETE"
      [] OTHER -> ""

\* the match on endpoint.method.to_lowercase() (http.rs 121-132, main.rs
\* 255-261): the verb of the request, or "" for the fall-through arm
method_verb(method) ==
    CASE to_lowercase(method) = mGet -> "GET"
      [] to_lowercase(method) = mPost -> "POST"
      [] to_lowercase(method) = mPut -> "PUT"
      [] to_lowercase(method) = mDelete -> "DELETE"
      [] OTHER -> ""

\* RequestBuilder::headers then RequestBuilder::json: a body adds the JSON
\* content type unless the header map has one
request_headers(hdrs, bdy) ==
    IF bdy # NoBody /\ ~HeaderMap_contains(hdrs, sContentType)
    THEN Append(hdrs, [name |-> sContentType, value |-> sApplicationJson])
    ELSE hdrs

NoRequest == [method |-> "", url |-> NoUrl, headers |-> <<>>, body |-> NoBody]

RECURSIVE ProcessParamsFrom(_, _, _, _, _, _)
\* the loop over endpoint.params from its i-th iteration on
ProcessParamsFrom(url, hdrs, bdy, params, m, i) ==
    IF i > Len(params) THEN [ok |-> TRUE, url |-> url, headers |-> hdrs, body |-> bdy]
    ELSE LET r == process_param(url, hdrs, bdy, params[i], m) IN
         IF ~r.ok THEN r
         ELSE ProcessParamsFrom(r.url, r.headers, r.body, params, m, i + 1)

\* an outcome of execute_request before the send: the error returned
Failed(r) == [ok |-> FALSE, error |-> r, request |-> NoRequest]

\* execute_request up to the send, as a function of its inputs: the request
\* handed to the transport, or the error returned before
execute_request_outcome(v, ep, m, base, e) ==
    LET u == IF v = "http" THEN handle_url_path(ep, m, base) ELSE url_path_main(ep, m, base)
    IN  IF ~u.ok THEN Failed(u)
        ELSE LET p == ProcessParamsFrom(u.url, <<>>, NoBody, ep.params, m, 1) IN
        IF ~p.ok THEN Failed(p)
        ELSE LET basic == IF v = "http"
                          THEN inject_authorization(p.headers, sBasicPrefix, e.basic)
                          ELSE [ok |-> TRUE, headers |-> p.headers]
             IN
        IF ~basic.ok THEN Failed(basic)
        ELSE LET bearer == IF v = "http"
                           THEN inject_authorization(basic.headers, sBearerPrefix, e.bearer)
                           ELSE basic
             IN
        IF ~bearer.ok THEN Failed(bearer)
        ELSE IF method_verb(ep.method) = ""
        THEN Failed(IF v = "http"
                    THEN UnsupportedHttpMethodError(to_lowercase(ep.method))
                    ELSE UnsupportedMethodMessage(to_lowercase(ep.method)))
        ELSE [ok |-> TRUE, error |-> NoResult,
              request |-> [method |-> method_verb(ep.method),
                           url |-> p.url,
                           headers |-> request_headers(bearer.headers, p.body),
                           body |-> p.body]]

Return(r) ==
    /\ result' = r
    /\ pc' = "done"

\* http.rs line 72 (handle_url_path); main.rs lines 195-232
HandleUrlPath ==
    /\ pc = "start"
    /\ LET r == IF variant = "http"
                THEN handle_url_path(endpoint, matches, base_url)
                ELSE url_path_main(endpoint, matches, base_url)
       IN  IF r.ok
           THEN /\ final_url' = r.url
                /\ path_for_interpolation' = r.path
                /\ steps' = steps \cup {"url"}
                /\ pc' = "params"
                /\ UNCHANGED result
           ELSE /\ Return(r)
                /\ UNCHANGED <<final_url, path_for_interpolation, steps>>
    /\ UNCHANGED <<variant, endpoint, matches, base_url, idx, headers, body, env,
                   request, sent>>
    /\ UNCHANGED cli_vars

\* one iteration of `for param in endpoint.params`
ProcessParam ==
    /\ pc = "params"
    /\ idx <= Len(endpoint.params)
    /\ LET r == process_param(final_url, headers, body, endpoint.params[idx], matches)
       IN  IF r.ok
           THEN /\ final_url' = r.url
                /\ headers' = r.headers
                /\ body' = r.body
                /\ idx' = idx + 1
                /\ UNCHANGED <<pc, result>>
           ELSE /\ Return(r)
                /\ UNCHANGED <<final_url, headers, body, idx>>
    /\ UNCHANGED <<variant, endpoint, matches, base_url, path_for_interpolation, env,
                   request, sent, steps>>
    /\ UNCHANGED cli_vars

\* the loop over endpoint.params ends
ParamsDone ==
    /\ pc = "params"
    /\ idx > Len(endpoint.params)
    /\ pc' = IF variant = "http" THEN "auth_basic" ELSE "dispatch"
    /\ steps' = steps \cup {"params"}
    /\ UNCHANGED <<variant, endpoint, matches, base_url, idx, final_url,
                   path_for_interpolation, headers, body, env, request, sent, result>>
    /\ UNCHANGED cli_vars

\* http.rs 106-111
AuthBasic ==
    /\ pc = "auth_basic"
    /\ LET r == inject_authorization(headers, sBasicPrefix, env.basic)
       IN  IF r.ok
           THEN /\ headers' = r.headers
                /\ pc' = "auth_bearer"
                /\ UNCHANGED result
           ELSE /\ Return(r)
                /\ UNCHANGED headers
    /\ UNCHANGED <<variant, endpoint, matches, base_url, idx, final_url,
                   path_for_interpolation, body, env, request, sent, steps>>
    /\ UNCHANGED cli_vars

\* http.rs 113-118
AuthBearer ==
    /\ pc = "auth_bearer"
    /\ LET r == inject_authorization(headers, sBearerPrefix, env.bearer)
       IN  IF r.ok
           THEN /\ headers' = r.headers
                /\ pc' = "dispatch"
                /\ steps' = steps \cup {"auth"}
                /\ UNCHANGED result
           ELSE /\ Return(r)
                /\ UNCHANGED <<headers, steps>>
    /\ UNCHANGED <<variant, endpoint, matches, base_url, idx, final_url,
                   path_for_interpolation, body, env, request, sent>>
    /\ UNCHANGED cli_vars

\* http.rs 121-139, main.rs 255-266: the method match, then the headers and
\* the body are put on the request
Dispatch ==
    /\ pc = "dispatch"
    /\ IF method_verb(endpoint.method) # ""
       THEN /\ request' = [method |-> method_verb(endpoint.method),
                           url |-> final_url,
                           headers |-> request_headers(headers, body),
                           body |-> body]
            /\ steps' = steps \cup {"dispatch"}
            /\ pc' = "send"
            /\ UNCHANGED result
       ELSE /\ Return(IF variant = "http"
                      THEN UnsupportedHttpMethodError(to_lowercase(endpoint.method))
                      ELSE UnsupportedMethodMessage(to_lowercase(endpoint.method)))
            /\ UNCHANGED <<request, steps>>
    /\ UNCHANGED <<variant, endpoint, matches, base_url, idx, final_url,
                   path_for_interpolation, headers, body, env, sent>>
    /\ UNCHANGED cli_vars

\* request.send(): the one call of the transport
Send ==
    /\ pc = "send"
    /\ sent' = sent + 1
    /\ pc' = "await"
    /\ UNCHANGED <<variant, endpoint, matches, base_url, idx, final_url,
                   path_for_interpolation, headers, body, env, request, result, steps>>
    /\ UNCHANGED cli_vars

ResponseOutcomes == {"transport error", "not json", "json"}

\* `.await?` of send, then response.json().await?
Respond ==
    /\ pc = "await"
    /\ \E outcome \in ResponseOutcomes :
          Return(IF outcome = "json"
                 THEN [ok |-> TRUE, kind |-> "Ok", detail |-> None]
                 ELSE ReqwestError)
    /\ UNCHANGED <<variant, endpoint, matches, base_url, idx, final_url,
                   path_for_interpolation, headers, body, env, request, sent, steps>>
    /\ UNCHANGED cli_vars

---------------------------------------------------------------------------
(* The inputs of request resolution.                                       *)

sBody == <<"b", "o", "d", "y">>
sId == <<"i", "d">>
sPostId == <<"p", "o", "s", "t", "I", "d">>
sTag == <<"t", "a", "g">>
sXTrace == <<"X", "-", "T", "r", "a", "c", "e">>
sBadName == <<"b", "a", "d", " ", "n", "a", "m", "e">>
sAuthorizationParam ==
    <<"A", "u", "t", "h", "o", "r", "i", "z", "a", "t", "i", "o", "n">>
sAuthorizationLower ==
    <<"a", "u", "t", "h", "o", "r", "i", "z", "a", "t", "i", "o", "n">>

v42 == <<"4", "2">>
v7 == <<"7">>
vEsc == <<"%", "4", "1">>
vPostIdToken == <<"{", "p", "o", "s", "t", "I", "d", "}">>
vIdToken == <<"{", "i", "d", "}">>
vSpace == <<"a", " ", "b">>
vA == <<"a">>
vB == <<"b">>
vNewline == <<"x", "\n", "y">>
jsonObj == <<"{", "\"", "a", "\"", ":", "1", "}">>
jsonBad == <<"n", "o", "t", " ", "j", "s", "o", "n">>

tItemsRel == <<"i", "t", "e", "m", "s">>
tItemsAbs == <<"/", "i", "t", "e", "m", "s">>
tUsers ==
    <<"/", "u", "s", "e", "r", "s", "/", "{", "i", "d", "}", "/",
      "p", "o", "s", "t", "s", "/", "{", "p", "o", "s", "t", "I", "d", "}">>
tUserRel == <<"u", "s", "e", "r", "s", "/", "{", "i", "d", "}">>
tEscaped == <<"/", "%", "4", "1", "/", "{", "i", "d", "}">>
tRoot == <<"/">>

mPatch == <<"p", "a", "t", "c", "h">>
mGetUpper == <<"G", "E", "T">>
mPatchUpper == <<"P", "A", "T", "C", "H">>
mDeleteMixed == <<"D", "e", "l", "e", "t", "e">>

tokGood == <<"t", "o", "k">>
tokBad == <<"t", "\n", "k">>

Variants == {"http", "main"}

\* base address strings: one that is no absolute URL, and absolute ones
\* without a path, with the root path, and with a path prefix
ExampleOrigin == "https://api.example.com"
bRelative == [absolute |-> FALSE, origin |-> "", path |-> <<"a", "p", "i", "/", "v", "2">>]
bBare == [absolute |-> TRUE, origin |-> ExampleOrigin, path |-> <<>>]
bRoot == [absolute |-> TRUE, origin |-> ExampleOrigin, path |-> <<"/">>]
bV2 == [absolute |-> TRUE, origin |-> ExampleOrigin, path |-> <<"/", "v", "2">>]
bV2Slash == [absolute |-> TRUE, origin |-> ExampleOrigin, path |-> <<"/", "v", "2", "/">>]
bDeep ==
    [absolute |-> TRUE, origin |-> ExampleOrigin, path |-> <<"/", "a", "p", "i", "/", "v", "2">>]

Bases == {bRelative, bBare, bRoot, bV2, bV2Slash, bDeep}

Templates == {tItemsRel, tItemsAbs, tUsers, tUserRel, tEscaped, tRoot}

Methods == {mGet, mPost, mPut, mDelete, mPatch, mGetUpper, mPatchUpper, mDeleteMixed}

\* openapi::Parameter
Parameter(name, location, required) ==
    [name |-> name, location |-> location, required |-> required,
     param_type |-> IF location = "Body" THEN "json" ELSE "string"]

\* openapi::Endpoint
Endpoint(name, method, path, params) ==
    [name |-> name, method |-> method, path |-> path, params |-> params]

PathParams ==
    {Parameter(sId, "Path", TRUE), Parameter(sId, "Path", FALSE),
     Parameter(sPostId, "Path", TRUE)}

OtherParams(v) ==
    {Parameter(sTag, "Query", r) : r \in BOOLEAN}
    \cup {Parameter(sBody, "Body", r) : r \in BOOLEAN}
    \cup {Parameter(sId, "Path", TRUE)}
    \cup (IF v = "http"
          THEN {Parameter(sXTrace, "Header", r) : r \in BOOLEAN}
               \cup {Parameter(sBadName, "Header", FALSE)}
          ELSE {})

\* the values an argument can hold in the ArgMatches (none, one, several)
ValuesFor(name) ==
    CASE name = sId -> {<<>>, <<v42>>, <<vEsc>>, <<vPostIdToken>>, <<vSpace>>}
      [] name = sPostId -> {<<>>, <<v7>>, <<vIdToken>>}
      [] name = sTag -> {<<>>, <<vA>>, <<vA, vB>>}
      [] name = sBody -> {<<>>, <<jsonObj>>, <<jsonBad>>}
      [] name = sXTrace -> {<<>>, <<vA>>, <<vNewline>>}
      [] name = sBadName -> {<<>>, <<vA>>}
      [] name = sAuthorizationParam -> {<<>>, <<vB>>}
      [] name = sAuthorizationLower -> {<<>>, <<vA>>}

SeqsUpTo(S, n) == UNION {[1..k -> S] : k \in 0..n}

ParamNames(params) == {params[i].name : i \in 1..Len(params)}

\* the ArgMatches of a command that declares one argument per parameter name
MatchesFor(params) ==
    {m \in [ParamNames(params) -> UNION {ValuesFor(n) : n \in ParamNames(params)}] :
        \A n \in ParamNames(params) : m[n] \in ValuesFor(n)}

NoEnv == [basic |-> None, bearer |-> None]
TokenOptions == {None, tokGood, tokBad}
Environments == [basic : TokenOptions, bearer : TokenOptions]

NoDoc == [paths |-> <<>>, servers |-> <<>>]

\* no --server argument
NoServer == [absolute |-> FALSE, origin |-> "<none>", path |-> <<>>]

\* the state at the call of execute_request
Call(v, ep, m, base, e) ==
    /\ variant = v
    /\ endpoint = ep
    /\ matches = m
    /\ base_url = base
    /\ env = e
    /\ pc = "start"
    /\ idx = 1
    /\ final_url = NoUrl
    /\ path_for_interpolation = <<>>
    /\ headers = <<>>
    /\ body = NoBody
    /\ request = NoRequest
    /\ sent = 0
    /\ result = NoResult
    /\ steps = {}
    /\ doc = NoDoc
    /\ path_idx = 1
    /\ endpoints = <<>>
    /\ server_arg = NoServer
    /\ subcommand = None
    /\ selected = 0

\* every base address and path template, with Path parameters
InitUrl ==
    \E v \in Variants, base \in Bases, t \in Templates :
      \E ps \in SeqsUpTo(PathParams, MaxParams) :
        \E m \in MatchesFor(ps) :
           Call(v, Endpoint(<<"o", "p">>, mGet, t, ps), m, base, NoEnv)

\* every parameter list over the four locations
InitParams ==
    \E v \in Variants :
      \E ps \in SeqsUpTo(OtherParams(v), MaxParams) :
        \E m \in MatchesFor(ps) :
           Call(v, Endpoint(<<"o", "p">>, mPost, tUsers, ps), m, bBare, NoEnv)

\* every method string and every environment
InitMethods ==
    \E v \in Variants, method \in Methods, e \in Environments :
      \E ps \in SeqsUpTo({Parameter(sBody, "Body", FALSE)}, 1) :
        \E m \in MatchesFor(ps) :
           Call(v, Endpoint(<<"o", "p">>, method, tItemsAbs, ps), m, bBare,
                IF v = "http" THEN e ELSE NoEnv)

\* Header parameters, two of them named Authorization in different letter
\* case, in every environment
AuthParams ==
    {Parameter(sAuthorizationParam, "Header", FALSE),
     Parameter(sAuthorizationLower, "Header", FALSE),
     Parameter(sXTrace, "Header", FALSE)}

InitAuth ==
    \E e \in Environments :
      \E ps \in SeqsUpTo(AuthParams, MaxParams) :
        \E m \in MatchesFor(ps) :
           Call("http", Endpoint(<<"o", "p">>, mGet, tItemsAbs, ps), m, bBare, e)

Init == InitUrl \/ InitParams \/ InitMethods \/ InitAuth

Next ==
    \/ HandleUrlPath
    \/ ProcessParam
    \/ ParamsDone
    \/ AuthBasic
    \/ AuthBearer
    \/ Dispatch
    \/ Send
    \/ Respond

Spec == Init /\ [][Next]_vars

---------------------------------------------------------------------------
(* What the claims speak of, read off the inputs of the call.              *)

Params == endpoint.params

\* the declared parameters that are required and have no supplied value
MissingRequired ==
    {i \in 1..Len(Params) : Params[i].required /\ ~Supplied(matches, Params[i].name)}

FirstMissingRequired == CHOOSE i \in MissingRequired : \A j \in MissingRequired : i <= j

SuppliedAt(location) ==
    {i \in 1..Len(Params) : Params[i].location = location /\ Supplied(matches, Params[i].name)}

IsMissingRequiredError(r) ==
    r.kind \in {"MissingRequiredParameterError", "Required parameter '{}' not provided"}

IsUnsupportedMethodError(r) ==
    r.kind \in {"UnsupportedHttpMethodError", "Unsupported HTTP method: {}"}

\* the request has been built from the inputs
RequestBuilt == "dispatch" \in steps

SupportedMethods == {mGet, mPost, mPut, mDelete}

---------------------------------------------------------------------------
(* C1                                                                      *)

---------------------------------------------------------------------------
(* C2                                                                      *)

HeaderParamOk(i) ==
    /\ HeaderName_from_bytes(to_uppercase(Params[i].name)).ok
    /\ HeaderValue_from_str(get_one(matches, Params[i].name)).ok

TokenOk(t) == t = None \/ \A k \in 1..Len(t) : t[k] \notin {"\n", "\r"}

\* every step before the send succeeds on these inputs
AllStepsSucceed ==
    /\ base_url.absolute
    /\ MissingRequired = {}
    /\ \A i \in SuppliedAt("Body") : from_str(get_one(matches, Params[i].name)).ok
    /\ \A i \in SuppliedAt("Header") : HeaderParamOk(i)
    /\ variant = "http" => TokenOk(env.basic) /\ TokenOk(env.bearer)
    /\ to_lowercase(endpoint.method) \in SupportedMethods

\* C2: the transport send happens at most once, and only when base-address
\* parsing, the required-parameter check, path substitution, header
\* construction, body parsing and method dispatch have all succeeded; a run
\* that ends with an error of one of these steps has sent nothing.
C2_SendOnlyAfterAllSteps ==
    /\ sent <= 1
    /\ sent = 1 =>
          /\ AllStepsSucceed
          /\ {"url", "params", "dispatch"} \subseteq steps
          /\ variant = "http" => "auth" \in steps
          /\ pc \in {"await", "done"}
    /\ (pc = "done" /\ ~AllStepsSucceed) => (sent = 0 /\ ~result.ok)
    /\ (pc = "done" /\ ~result.ok /\ result.kind # "ReqwestError") => sent = 0

\* a Body value that is no JSON ends the run after the URL was built, with
\* nothing sent
C2_Witness ==
    /\ pc = "done"
    /\ result = SerdeJsonError
    /\ "url" \in steps
    /\ sent = 0
    /\ \E i \in SuppliedAt("Body") : get_one(matches, Params[i].name) = jsonBad

---------------------------------------------------------------------------
(* C3, C4                                                                  *)

\* the base address has a path prefix other than the root
HasPathPrefix(base) == base.absolute /\ base.path \notin {<<>>, <<"/">>}

BasePath(base) == IF base.path = <<>> THEN <<"/">> ELSE base.path

\* C3: for a base address with a non-root path prefix and an operation path
\* without a leading slash, the request path is the base path, its trailing
\* slash trimmed, then one slash, then the operation path.
C3_RelativePathAppended ==
    ("url" \in steps /\ HasPathPrefix(base_url) /\ Params = <<>>
        /\ ~starts_with(endpoint.path, <<"/">>)) =>
        /\ final_url.origin = base_url.origin
        /\ final_url.path =
              PathEncode(trim_end_matches_slash(base_url.path) \o <<"/">> \o endpoint.path)

\* C4: for every base address and every operation path that starts with a
\* slash, the request path is the operation path itself.
C4_AbsolutePathReplaces ==
    ("url" \in steps /\ Params = <<>> /\ starts_with(endpoint.path, <<"/">>)) =>
        /\ final_url.origin = base_url.origin
        /\ final_url.path = PathEncode(endpoint.path)

---------------------------------------------------------------------------
(* C5                                                                      *)

AllPathSupplied ==
    \A i \in 1..Len(Params) :
        Params[i].location = "Path" => Supplied(matches, Params[i].name)

RECURSIVE SubstituteAll(_, _)
\* `t` from position i on, with the placeholder of every supplied Path
\* parameter replaced by its raw value in one pass
SubstituteAll(t, i) ==
    IF i > Len(t) THEN <<>>
    ELSE IF \E k \in SuppliedAt("Path") : MatchAt(t, Placeholder(Params[k].name), i)
         THEN LET k == CHOOSE k \in SuppliedAt("Path") :
                           MatchAt(t, Placeholder(Params[k].name), i)
              IN  get_one(matches, Params[k].name)
                  \o SubstituteAll(t, i + Len(Placeholder(Params[k].name)))
    ELSE <<t[i]>> \o SubstituteAll(t, i + 1)

\* the path that enters the substitution loop
PathBeforeInterpolation ==
    IF variant = "http" THEN join_url(base_url, endpoint.path).url.path
    ELSE final_path_main(UrlParse(base_url).url.path, endpoint.path)

NoResidualToken ==
    \A k \in SuppliedAt("Path") :
        ~Contains(path_for_interpolation, Placeholder(Params[k].name))

RECURSIVE BracesFlat(_, _, _)
\* no '{' of `t` stands inside an open brace
BracesFlat(t, i, open) ==
    IF i > Len(t) THEN TRUE
    ELSE IF t[i] = "{" THEN ~open /\ BracesFlat(t, i + 1, TRUE)
    ELSE IF t[i] = "}" THEN BracesFlat(t, i + 1, FALSE)
    ELSE BracesFlat(t, i + 1, open)

PlainValue(v) == \A k \in 1..Len(v) : v[k] \notin {"%", "{", "}"}

\* neither the template nor the base path holds a percent sign, the braces
\* of the template do not nest, and no Path value holds a percent sign or a
\* brace
PlainPathInputs ==
    /\ ~Contains(endpoint.path, <<"%">>)
    /\ PlainValue(base_url.path)
    /\ BracesFlat(endpoint.path, 1, FALSE)
    /\ \A k \in SuppliedAt("Path") : PlainValue(get_one(matches, Params[k].name))

pUsers42 ==
    <<"/", "u", "s", "e", "r", "s", "/", "4", "2", "/", "p", "o", "s", "t", "s", "/", "7">>

---------------------------------------------------------------------------
(* C6                                                                      *)

HasPair(url, name, value) ==
    \E k \in 1..Len(url.query) : url.query[k] = <<FormEncode(name), FormEncode(value)>>

\* C6: every supplied Query parameter adds one name=value pair to the URL
\* and replaces none; when two Query parameters of one name are supplied
\* distinct values, both values are pairs of the final URL.
C6_DistinctValuesBothAppear ==
    "params" \in steps =>
        /\ Len(final_url.query) = Cardinality(SuppliedAt("Query"))
        /\ \A i, j \in SuppliedAt("Query") :
              (i < j /\ Params[i].name = Params[j].name
                  /\ Len(matches[Params[i].name]) >= 2
                  /\ matches[Params[i].name][1] # matches[Params[i].name][2]) =>
                  /\ HasPair(final_url, Params[i].name, matches[Params[i].name][1])
                  /\ HasPair(final_url, Params[i].name, matches[Params[i].name][2])

---------------------------------------------------------------------------
(* C7                                                                      *)

\* every step before the method match has succeeded
ReachedDispatch ==
    /\ {"url", "params"} \subseteq steps
    /\ variant = "http" => "auth" \in steps

VerbChars(verb) ==
    CASE verb = "GET" -> <<"G", "E", "T">>
      [] verb = "POST" -> <<"P", "O", "S", "T">>
      [] verb = "PUT" -> <<"P", "U", "T">>
      [] verb = "DELETE" -> <<"D", "E", "L", "E", "T", "E">>
      [] OTHER -> <<>>

\* C7 as stated: for a method string outside GET, POST, PUT, DELETE the
\* resolution ends with the unsupported-method error that carries that
\* method string, and nothing is sent.
C7_AsStated ==
    (pc = "done" /\ ReachedDispatch
        /\ to_lowercase(endpoint.method) \notin SupportedMethods) =>
        /\ IsUnsupportedMethodError(result)
        /\ result.detail = endpoint.method
        /\ sent = 0

\* C7, amended: the method string is matched without regard to letter case;
\* for a method outside GET, POST, PUT, DELETE the resolution ends with the
\* unsupported-method error that carries the method string in lower case,
\* and nothing is sent; for a method inside the set the request's verb is
\* that method.
C7_UnsupportedMethod ==
    /\ (pc = "done" /\ ReachedDispatch
          /\ to_lowercase(endpoint.method) \notin SupportedMethods) =>
          /\ IsUnsupportedMethodError(result)
          /\ result.detail = to_lowercase(endpoint.method)
          /\ sent = 0
          /\ ~RequestBuilt
    /\ (pc \in {"send", "await"} \/ (pc = "done" /\ sent = 1)) =>
          /\ to_lowercase(endpoint.method) \in SupportedMethods
          /\ VerbChars(request.method) = to_uppercase(endpoint.method)

\* PATCH ends with the error that carries "patch"
C7_Witness ==
    /\ pc = "done"
    /\ endpoint.method = mPatchUpper
    /\ result = UnsupportedHttpMethodError(mPatch)
    /\ sent = 0

---------------------------------------------------------------------------
(* C10                                                                     *)

\* C10: when a supplied Header parameter cannot be made a wire header, the
\* result is InvalidHeaderName or InvalidHeaderValue whose name field is the
\* name of the offending parameter; when it can, the request carries a
\* header of the parameter's name with the raw supplied value.
C10_HeaderErrorNamesParameter ==
    /\ (pc = "done" /\ "url" \in steps /\ "params" \notin steps
          /\ result.kind \in {"InvalidHeaderName", "InvalidHeaderValue"}) =>
          result.detail = Params[idx].name
    /\ "params" \in steps =>
          \A i \in SuppliedAt("Header") :
              \E k \in 1..Len(headers) :
                  /\ headers[k].name = to_lowercase(Params[i].name)
                  /\ headers[k].value = get_one(matches, Params[i].name)

---------------------------------------------------------------------------
(* openapi.rs: the operation catalog (main.rs holds the same functions,    *)
(* with Header parameters unsupported).                                    *)
(*                                                                         *)
(* A document is its `paths` (path -> ReferenceOr<PathItem>, in document   *)
(* order) and its `servers`.  A PathItem is its handlers by method; an     *)
(* Operation is its operation_id, its parameters (ReferenceOr<Parameter>)  *)
(* and its request body.                                                   *)

NoOperation == [present |-> FALSE, operation_id |-> None, parameters |-> <<>>,
                request_body |-> [kind |-> "none", required |-> FALSE]]

\* the `match paramx` of parse_params on one parameter: the Parameter
\* pushed, or a panic (todo!()) for a reference and for a Cookie parameter
\* (and, in main.rs, for a Header parameter)
parse_param(v, p) ==
    IF p.is_ref \/ p.kind = "Cookie" \/ (v = "main" /\ p.kind = "Header")
    THEN [panic |-> TRUE, params |-> <<>>]
    ELSE [panic |-> FALSE, params |-> <<Parameter(p.name, p.kind, p.required)>>]

RECURSIVE parse_params(_, _)
\* parse_params
parse_params(v, ps) ==
    IF ps = <<>> THEN [panic |-> FALSE, params |-> <<>>]
    ELSE LET first == parse_param(v, Head(ps))
             rest == parse_params(v, Tail(ps))
         IN  IF first.panic \/ rest.panic THEN [panic |-> TRUE, params |-> <<>>]
             ELSE [panic |-> FALSE, params |-> first.params \o rest.params]

\* operation_of with the handler of post read for put
operation_of_put_as_post(method, path_item) ==
    CASE method = mGet -> path_item.get
      [] method = mPost -> path_item.post
      [] method = mPut -> path_item.post
      [] method = mDelete -> path_item.delete
      [] OTHER -> NoOperation

\* the handler the `match method` of add_endpoint_for_method reads
operation_of(method, path_item) ==
    CASE method = mGet -> path_item.get
      [] method = mPost -> path_item.post
      [] method = mPut -> path_item.put
      [] method = mDelete -> path_item.delete
      [] OTHER -> NoOperation

\* format!("{}_{}", method, path.replace("/", "_"))
default_name(method, path) == method \o <<"_">> \o replace(path, <<"/">>, <<"_">>)

\* add_endpoint_for_method: the catalog after the call, or a panic
add_endpoint_for_method(v, method, path, path_item, eps) ==
    LET op == operation_of(method, path_item) IN
    IF ~op.present THEN [panic |-> FALSE, endpoints |-> eps]
    ELSE LET parsed == parse_params(v, op.parameters) IN
         IF parsed.panic \/ op.request_body.kind = "ref"
         THEN [panic |-> TRUE, endpoints |-> eps]
         ELSE [panic |-> FALSE,
               endpoints |->
                   Append(eps,
                       Endpoint(IF op.operation_id # None THEN op.operation_id
                                ELSE default_name(method, path),
                                method, path,
                                parsed.params \o
                                    (IF op.request_body.kind = "item"
                                     THEN <<Parameter(sBody, "Body", op.request_body.required)>>
                                     ELSE <<>>)))]

RECURSIVE add_endpoints(_, _, _, _, _)
\* the calls of add_endpoint_for_method for one path, in their order
add_endpoints(v, methods, path, path_item, eps) ==
    IF methods = <<>> THEN [panic |-> FALSE, endpoints |-> eps]
    ELSE LET r == add_endpoint_for_method(v, Head(methods), path, path_item, eps) IN
         IF r.panic THEN r
         ELSE add_endpoints(v, Tail(methods), path, path_item, r.endpoints)

\* one iteration of the loop of extract_endpoints over spec.paths
ExtractPath ==
    /\ pc = "extract"
    /\ path_idx <= Len(doc.paths)
    /\ LET entry == doc.paths[path_idx]
           r == add_endpoints(variant, <<mGet, mPost, mPut, mDelete>>, entry.path,
                              entry.item, endpoints)
       IN  IF entry.is_ref
           THEN /\ path_idx' = path_idx + 1
                /\ UNCHANGED <<endpoints, pc>>
           ELSE IF r.panic
           THEN /\ pc' = "panic"
                /\ UNCHANGED <<endpoints, path_idx>>
           ELSE /\ endpoints' = r.endpoints
                /\ path_idx' = path_idx + 1
                /\ UNCHANGED pc
    /\ UNCHANGED <<variant, endpoint, matches, base_url, idx, final_url,
                   path_for_interpolation, headers, body, env, request, sent, result,
                   steps, doc, server_arg, subcommand, selected>>

\* extract_endpoints returns the catalog
ExtractDone ==
    /\ pc = "extract"
    /\ path_idx > Len(doc.paths)
    /\ pc' = "catalog"
    /\ UNCHANGED <<variant, endpoint, matches, base_url, idx, final_url,
                   path_for_interpolation, headers, body, env, request, sent, result,
                   steps, doc, path_idx, endpoints, server_arg, subcommand, selected>>

---------------------------------------------------------------------------
(* The documents of the catalog's specification.                           *)

sListItems == <<"l", "i", "s", "t", "I", "t", "e", "m", "s">>

Op(id, parameters, request_body) ==
    [present |-> TRUE, operation_id |-> id, parameters |-> parameters,
     request_body |-> request_body]

DocParam(kind, name, required) ==
    [is_ref |-> FALSE, kind |-> kind, name |-> name, required |-> required]

NoRequestBody == [kind |-> "none", required |-> FALSE]

opPlain == Op(None, <<>>, NoRequestBody)
opNamed ==
    Op(sListItems, <<DocParam("Query", sTag, FALSE), DocParam("Path", sId, TRUE)>>,
       [kind |-> "item", required |-> TRUE])
opHeader == Op(None, <<DocParam("Header", sXTrace, FALSE)>>, NoRequestBody)
opCookie == Op(None, <<DocParam("Cookie", sTag, FALSE)>>, NoRequestBody)
opRefParam ==
    Op(None, <<[is_ref |-> TRUE, kind |-> "Query", name |-> None, required |-> FALSE]>>,
       NoRequestBody)
opRefBody == Op(None, <<>>, [kind |-> "ref", required |-> FALSE])

HandlerNames == {"get", "post", "put", "delete", "patch"}

\* a PathItem whose handlers `hs` all are the operation `op`
PathItem(hs, op) == [h \in HandlerNames |-> IF h \in hs THEN op ELSE NoOperation]

\* path items: every set of supported handlers, with and without a patch
\* handler beside it, and operations of every shape
PathItems ==
    {PathItem(hs, opPlain) : hs \in SUBSET {"get", "post", "put", "delete"}}
    \cup {PathItem({"patch"}, opPlain), PathItem({"get", "patch"}, opPlain)}
    \cup {PathItem({"get", "post"}, opNamed), PathItem({"delete"}, opHeader),
          PathItem({"get"}, opCookie), PathItem({"post"}, opRefParam),
          PathItem({"put"}, opRefBody)}

DigitChars == <<"1", "2", "3", "4", "5", "6", "7", "8", "9">>

\* the i-th path of a document
PathKey(i) == <<"/", "p", DigitChars[i]>>

\* an entry of `paths`: a path item, or a reference to one
PathEntries(i) ==
    {[path |-> PathKey(i), is_ref |-> FALSE, item |-> it] : it \in PathItems}
    \cup {[path |-> PathKey(i), is_ref |-> TRUE, item |-> PathItem({}, opPlain)]}

RECURSIVE PathLists(_)
\* the `paths` of the documents over the first n paths
PathLists(n) ==
    IF n = 0 THEN {<<>>}
    ELSE PathLists(n - 1)
         \cup {Append(ps, e) : ps \in PathLists(n - 1), e \in PathEntries(n)}

InitCatalog ==
    \E v \in Variants, ps \in PathLists(MaxPaths) :
        /\ variant = v
        /\ doc = [paths |-> ps, servers |-> <<>>]
        /\ pc = "extract"
        /\ path_idx = 1
        /\ endpoints = <<>>
        /\ endpoint = Endpoint(None, mGet, <<>>, <<>>)
        /\ matches = <<>>
        /\ base_url = NoServer
        /\ env = NoEnv
        /\ idx = 1
        /\ final_url = NoUrl
        /\ path_for_interpolation = <<>>
        /\ headers = <<>>
        /\ body = NoBody
        /\ request = NoRequest
        /\ sent = 0
        /\ result = NoResult
        /\ steps = {}
        /\ server_arg = NoServer
        /\ subcommand = None
        /\ selected = 0

NextCatalog == ExtractPath \/ ExtractDone

SpecCatalog == InitCatalog /\ [][NextCatalog]_vars

---------------------------------------------------------------------------
(* C9                                                                      *)

\* the path declares a handler for the method, one of get, post, put, delete
Declared(path, method) ==
    \E i \in 1..Len(doc.paths) :
        /\ doc.paths[i].path = path
        /\ ~doc.paths[i].is_ref
        /\ \/ method = mGet /\ doc.paths[i].item.get.present
           \/ method = mPost /\ doc.paths[i].item.post.present
           \/ method = mPut /\ doc.paths[i].item.put.present
           \/ method = mDelete /\ doc.paths[i].item.delete.present

EndpointsOf(path, method) ==
    {k \in 1..Len(endpoints) : endpoints[k].path = path /\ endpoints[k].method = method}

---------------------------------------------------------------------------
(* main: the base address and the command that is run.                     *)

\* "http://localhost:3000"
FallbackBaseUrl == [absolute |-> TRUE, origin |-> "http://localhost:3000", path |-> <<>>]

\* main_base_url with the last declared server for the first
main_base_url_last_server(d) ==
    IF d.servers # <<>> THEN d.servers[Len(d.servers)] ELSE FallbackBaseUrl

\* `match spec.servers.first()`: the first declared server, or the fallback
main_base_url(d) ==
    IF d.servers # <<>> THEN d.servers[1] ELSE FallbackBaseUrl

\* the --server argument, when supplied, taken before the document's servers
select_base_url(arg, d) ==
    IF arg # NoServer THEN arg ELSE main_base_url(d)

\* the base address is chosen
SelectBaseUrl ==
    /\ pc = "main"
    /\ base_url' = select_base_url(server_arg, doc)
    /\ pc' = "driver"
    /\ UNCHANGED <<variant, endpoint, matches, idx, final_url, path_for_interpolation,
                   headers, body, env, request, sent, result, steps, doc, path_idx,
                   endpoints, server_arg, subcommand, selected>>

\* the endpoints whose name is the subcommand's
Matching == {k \in 1..Len(endpoints) : endpoints[k].name = subcommand}

\* the loop over the endpoints: the first one the subcommand names is run
\* with the chosen base address
DispatchCommand ==
    /\ pc = "driver"
    /\ Matching # {}
    /\ LET k == CHOOSE i \in Matching : \A j \in Matching : i <= j IN
           /\ selected' = k
           /\ endpoint' = endpoints[k]
    /\ pc' = "called"
    /\ UNCHANGED <<variant, matches, base_url, idx, final_url, path_for_interpolation,
                   headers, body, env, request, sent, result, steps, doc, path_idx,
                   endpoints, server_arg, subcommand>>

\* the loop ends with no endpoint named: main returns Ok(())
NoCommand ==
    /\ pc = "driver"
    /\ Matching = {}
    /\ pc' = "exit"
    /\ UNCHANGED <<variant, endpoint, matches, base_url, idx, final_url,
                   path_for_interpolation, headers, body, env, request, sent, result,
                   steps, doc, path_idx, endpoints, server_arg, subcommand, selected>>

sGetItems == <<"g", "e", "t", "_", "_", "i", "t", "e", "m", "s">>

\* the catalog of the driver's runs; two of its endpoints share a name
MainCatalog ==
    <<Endpoint(sGetItems, mGet, tItemsAbs, <<>>),
      Endpoint(sListItems, mGet, tItemsRel, <<Parameter(sTag, "Query", FALSE)>>),
      Endpoint(sListItems, mPost, tItemsAbs, <<>>)>>

\* server addresses a document declares
ServerUrls == {bV2, bV2Slash, bDeep}

\* addresses of the --server argument
ServerArgs == {NoServer, bRoot, bV2}

InitMain ==
    \E servers \in SeqsUpTo(ServerUrls, MaxServers), arg \in ServerArgs,
       sub \in {None, sGetItems, sListItems} :
        /\ variant = "http"
        /\ doc = [paths |-> <<>>, servers |-> servers]
        /\ server_arg = arg
        /\ subcommand = sub
        /\ endpoints = MainCatalog
        /\ pc = "main"
        /\ path_idx = 1
        /\ endpoint = Endpoint(None, mGet, <<>>, <<>>)
        /\ matches = <<>>
        /\ base_url = NoServer
        /\ env = NoEnv
        /\ idx = 1
        /\ final_url = NoUrl
        /\ path_for_interpolation = <<>>
        /\ headers = <<>>
        /\ body = NoBody
        /\ request = NoRequest
        /\ sent = 0
        /\ result = NoResult
        /\ steps = {}
        /\ selected = 0

NextMain == SelectBaseUrl \/ DispatchCommand \/ NoCommand

SpecMain == InitMain /\ [][NextMain]_vars

---------------------------------------------------------------------------
(* C8                                                                      *)

BaseUrlChosen == pc \in {"driver", "called", "exit"}

---------------------------------------------------------------------------
(* C11                                                                     *)

\* the Authorization headers of a header map
AuthorizationHeaders(h) == {k \in 1..Len(h) : h[k].name = sAuthorization}

\* the header map holds one Authorization header, of this value
OnlyAuthorization(h, value) ==
    /\ Cardinality(AuthorizationHeaders(h)) = 1
    /\ \A k \in AuthorizationHeaders(h) : h[k].value = value

\* the supplied Header parameters that are named Authorization
AuthorizationParams ==
    {i \in SuppliedAt("Header") : to_lowercase(Params[i].name) = sAuthorization}

\* C11: in http.rs the credentials are written after every header of a
\* parameter, basic first and bearer second, each write replacing the
\* Authorization header there is: the request carries at most one
\* Authorization header, the Bearer one when both credentials or only the
\* bearer one are set, the Basic one when only basic is set, and with none
\* set only the one a Header parameter named Authorization supplied.
C11_CredentialsLastWriteWins ==
    variant = "http" =>
        /\ pc \in {"auth_basic", "auth_bearer"} =>
              /\ "params" \in steps
              /\ idx > Len(Params)
        /\ (pc = "auth_bearer" /\ env.basic # None) =>
              OnlyAuthorization(headers, sBasicPrefix \o env.basic)
        /\ RequestBuilt =>
              /\ "auth" \in steps
              /\ Cardinality(AuthorizationHeaders(request.headers)) <= 1
              /\ env.bearer # None =>
                    OnlyAuthorization(request.headers, sBearerPrefix \o env.bearer)
              /\ (env.bearer = None /\ env.basic # None) =>
                    OnlyAuthorization(request.headers, sBasicPrefix \o env.basic)
              /\ (env.bearer = None /\ env.basic = None) =>
                    /\ AuthorizationParams = {} =>
                          AuthorizationHeaders(request.headers) = {}
                    /\ AuthorizationParams # {} =>
                          \E i \in AuthorizationParams :
                              OnlyAuthorization(request.headers,
                                                get_one(matches, Params[i].name))

\* both credentials set and a Header parameter named Authorization
\* supplied: the request carries the Bearer header alone
C11_Witness ==
    /\ variant = "http"
    /\ RequestBuilt
    /\ env.basic = tokGood /\ env.bearer = tokGood
    /\ AuthorizationParams # {}
    /\ OnlyAuthorization(request.headers, sBearerPrefix \o tokGood)

---------------------------------------------------------------------------
(* C12                                                                     *)

\* the orders of a list of n parameters
Orders(n) == {f \in [1..n -> 1..n] : \A i, j \in 1..n : f[i] = f[j] => i = j}

\* the endpoint with its parameters in the order f
Permuted(ep, f) ==
    [ep EXCEPT !.params = [i \in 1..Len(ep.params) |-> ep.params[f[i]]]]

\* the outcome of the run is known: the request is built and not yet sent,
\* or the run has ended before the send
OutcomeKnown == pc = "send" \/ (pc = "done" /\ sent = 0)

\* the outcome of the run
RunOutcome ==
    IF pc = "send" THEN [ok |-> TRUE, error |-> NoResult, request |-> request]
    ELSE Failed(result)

\* the outcome of the same call with the parameters in the order f
OutcomeOf(f) ==
    execute_request_outcome(variant, Permuted(endpoint, f), matches, base_url, env)

Occurrences(seq, x) == Cardinality({k \in 1..Len(seq) : seq[k] = x})

\* the two sequences hold the same elements, each as often
SameUpToOrder(a, b) ==
    /\ Len(a) = Len(b)
    /\ \A k \in 1..Len(a) : Occurrences(a, a[k]) = Occurrences(b, a[k])

\* the names of the required parameters that have no value
MissingNames == {Params[i].name : i \in MissingRequired}

\* the errors the parameter loop returns for the values supplied
ValueErrors ==
    {r \in {process_param(NoUrl, <<>>, NoBody, Params[i], matches) : i \in 1..Len(Params)} :
        ~r.ok}

\* no two supplied Header parameters of different names make one header
NoHeaderClash ==
    \A i, j \in SuppliedAt("Header") :
        to_lowercase(Params[i].name) = to_lowercase(Params[j].name) =>
            Params[i].name = Params[j].name

\* the supplied Body parameters have one name
NoBodyClash == \A i, j \in SuppliedAt("Body") : Params[i].name = Params[j].name

=============================================================================
